---------------------------- MODULE Spec2Model ----------------------------
(***************************************************************************)
(* A model of rkyv's archived SwissTable hash map                          *)
(* (src/rkyv/src/collections/swiss_table.rs) and of the validation of      *)
(* archived shared and weak pointers (src/rkyv/src/rc/validation.rs).      *)
(*                                                                         *)
(* The typed map is a thin wrapper over ArchivedRawSwissTable, whose       *)
(* source (collections/raw_swiss_table.rs) and whose hash function         *)
(* (hash::hash_value) are not among the files modelled here; the raw_*     *)
(* operators, the layout operators and hash_value follow the design        *)
(* description of the engine (sections 4.1, 4.2 and 4.4).  The same holds  *)
(* for the validation context (claim_shared_ptr) and RelPtr's check.       *)
(***************************************************************************)
EXTENDS Integers, Sequences, FiniteSets, TLC

VARIABLES
    phase,        \* "init" | "serialized" | "resolved"
    input,        \* the pairs handed to serialize_from_iter, in iteration order
    load_factor,  \* <<numerator, denominator>>
    hasher,       \* which hash function hash_value is
    resolver,     \* SwissTableResolver produced by serialize_from_iter
    table,        \* the ArchivedSwissTable written by resolve_from_len
    contents,     \* the logical key -> value mapping the table is meant to hold
    res,          \* outcome of the last operation on the table
    iter,         \* the live iterator (Iter / IterMut / ...), if any
    yielded,      \* the items the live iterator has returned so far
    writes,       \* number of in-place value writes made so far
    buffer,       \* the archive under validation: a root value and shared values
    claimed,      \* the context's claims: (type identity, offset) keys
    stack,        \* the nested T::check_bytes calls in progress, outermost first
    visits,       \* per shared location, how often its bytes were validated
    checks,       \* per shared location, the pointer checks to it that returned Ok
    result,       \* idle | running | ok | err (with the error) | overflow
    last          \* the pointer check made by the last step, with its outcome

mapvars == <<phase, input, load_factor, hasher, resolver, table, contents,
             res, iter, yielded, writes>>
rcvars == <<buffer, claimed, stack, visits, checks, result, last>>
vars == <<mapvars, rcvars>>

---------------------------------------------------------------------------
(* Bounds of the exploration *)

\* Inputs have 0..SmallLen pairs, or exactly one group / one group plus one.
SmallLen == 3
\* In-place writes made through mutable handles in one behaviour.
MaxWrites == 1
\* Shared locations of an archive under validation.
NLocs == 2
\* Pointer fields of the root value.
MaxRootFields == 2
\* Nested check_bytes calls the stack holds before it overflows.
MaxDepth == 5

---------------------------------------------------------------------------
(* Constants of the format *)

\* The maximum group width control bytes are rounded up to.
MAX_GROUP_WIDTH == 16
\* The control byte of an unoccupied bucket; FULL bytes are 7-bit tags.
EMPTY == 128

Max(a, b) == IF a >= b THEN a ELSE b
SetMin(S) == CHOOSE x \in S : \A y \in S : x <= y

MaxInputLen == MAX_GROUP_WIDTH + 1
Keys == 1 .. (MaxInputLen + 1)
Vals == {100, 101}
LoadFactors == {<<1, 1>>, <<7, 8>>, <<1, 2>>, <<2, 1>>, <<1, 8>>}
Hashers == {"spread", "clash", "sametag", "samepos"}

None == <<>>
Some(x) == <<x>>
NoEntry == [key |-> 0, value |-> 0]
NoTable == [len |-> 0, cap |-> 0, ctrl |-> <<>>, slots |-> <<>>]
NoResolver == [cap |-> 0, entries |-> <<>>]
NoIter == [kind |-> "none", raw |-> [pos |-> 0, remaining |-> 0]]
NoRes == [op |-> "none"]

---------------------------------------------------------------------------
(* hash::hash_value and the two values the engine derives from a hash *)

\* hash_value(key): four hash functions, from collision-free to constant.
hash_value(h, k) ==
    CASE h = "spread"  -> 128 * (7 * k) + ((5 * k) % 128)
      [] h = "clash"   -> 128 * 21 + 9
      [] h = "sametag" -> 128 * (3 * k) + 9
      [] h = "samepos" -> 128 * 21 + k

\* The initial bucket index is taken from h1, the 7-bit tag is h2.
h1(hash) == hash \div 128
h2(hash) == hash % 128

---------------------------------------------------------------------------
(* 4.1 Control-byte layout *)

CeilDiv(a, b) == (a + b - 1) \div b

\* bucket_count = max(len, ceil(len * den / num)); zero buckets for len = 0.
capacity_from_len(len, lf) ==
    IF len = 0 THEN 0 ELSE Max(len, CeilDiv(len * lf[2], lf[1]))

\* The control bytes: the bucket count rounded up to the group width.
control_count(cap) == CeilDiv(cap, MAX_GROUP_WIDTH) * MAX_GROUP_WIDTH

group_count(cap) == control_count(cap) \div MAX_GROUP_WIDTH

\* Control position p (0-based) stands for this bucket: the head is the
\* bucket itself, the tail repeats the first buckets.
bucket_of(p, cap) == IF p < cap THEN p ELSE p - cap

\* A tail position past the repeated head bytes stands for no bucket.
is_bucket_pos(p, cap) == p < cap \/ p - cap < cap

RECURSIVE NextPow2From(_, _)
NextPow2From(n, p) == IF p >= n THEN p ELSE NextPow2From(n, 2 * p)
next_power_of_two(n) == NextPow2From(n, 1)

\* Triangular probing over groups: from the group of the initial index, the
\* stride grows by one group per step over the next power of two; a group
\* past the real group count is skipped.
probe_seq(hash, cap) ==
    LET G  == group_count(cap)
        N  == next_power_of_two(G)
        g0 == (h1(hash) % cap) \div MAX_GROUP_WIDTH
        all == [k \in 1 .. N |-> (g0 + ((k - 1) * k) \div 2) % N]
    IN  SelectSeq(all, LAMBDA g : g < G)

group_positions(g) ==
    (g * MAX_GROUP_WIDTH) .. (g * MAX_GROUP_WIDTH + MAX_GROUP_WIDTH - 1)


---------------------------------------------------------------------------
(* 4.2 / 4.4 Raw table engine (ArchivedRawSwissTable) *)

\* The first unoccupied bucket along the probe sequence of `hash`, scanning
\* each probed group left to right; -1 when every probed group is full.
RECURSIVE probe_insert(_, _, _, _)
probe_insert(ctrl, cap, order, k) ==
    IF k > Len(order) THEN -1
    ELSE LET free == {p \in group_positions(order[k]) :
                         ctrl[p + 1] = EMPTY /\ is_bucket_pos(p, cap)}
         IN  IF free # {} THEN bucket_of(SetMin(free), cap)
             ELSE probe_insert(ctrl, cap, order, k + 1)

\* Mark bucket b occupied with `tag`, in the head and in the tail's repeat.
set_ctrl(ctrl, cap, b, tag) ==
    IF cap + b + 1 <= Len(ctrl)
    THEN [ctrl EXCEPT ![b + 1] = tag, ![cap + b + 1] = tag]
    ELSE [ctrl EXCEPT ![b + 1] = tag]

\* Assign a bucket to every item in iteration order; items carry their hash.
RECURSIVE assign_buckets(_, _, _, _, _)
assign_buckets(items, i, ctrl, cap, acc) ==
    IF i > Len(items) THEN acc
    ELSE LET b == probe_insert(ctrl, cap, probe_seq(items[i].hash, cap), 1)
         IN  assign_buckets(items, i + 1,
                            set_ctrl(ctrl, cap, b, h2(items[i].hash)), cap,
                            Append(acc, [entry  |-> items[i].entry,
                                         bucket |-> b,
                                         tag    |-> h2(items[i].hash)]))

\* ArchivedRawSwissTable::serialize_from_iter: the exact length the iterator
\* reports fixes the layout; the resolver keeps each entry with its bucket.
raw_serialize_from_iter(items, lf) ==
    LET cap == capacity_from_len(Len(items), lf)
        ctrl0 == [i \in 1 .. control_count(cap) |-> EMPTY]
    IN  [cap |-> cap, entries |-> assign_buckets(items, 1, ctrl0, cap, <<>>)]

RECURSIVE write_entries(_, _, _, _, _)
write_entries(entries, i, ctrl, slots, cap) ==
    IF i > Len(entries) THEN [ctrl |-> ctrl, slots |-> slots]
    ELSE write_entries(entries, i + 1,
                       set_ctrl(ctrl, cap, entries[i].bucket, entries[i].tag),
                       [slots EXCEPT ![entries[i].bucket + 1] = entries[i].entry],
                       cap)

\* ArchivedRawSwissTable::resolve_from_len: recomputes the layout from len
\* and the load factor and writes control bytes and entries in place.
raw_resolve_from_len(len, lf, rsv) ==
    LET cap == capacity_from_len(len, lf)
        w == write_entries(rsv.entries, 1,
                           [i \in 1 .. control_count(cap) |-> EMPTY],
                           [i \in 1 .. cap |-> NoEntry], cap)
    IN  [len |-> len, cap |-> cap, ctrl |-> w.ctrl, slots |-> w.slots]

raw_len(t) == t.len
raw_capacity(t) == t.cap
raw_is_empty(t) == t.len = 0

\* One lookup walk.  `matching` is the set of buckets whose entry satisfies
\* the caller's predicate; the predicate is consulted only for a control
\* byte equal to the tag.  found = -1 is a miss; steps counts probed groups.
RECURSIVE probe_get(_, _, _, _, _)
probe_get(t, tag, matching, order, k) ==
    IF k > Len(order) THEN [found |-> -1, steps |-> k - 1, empty |-> FALSE]
    ELSE LET ps  == group_positions(order[k])
             hit == {p \in ps : t.ctrl[p + 1] = tag
                                /\ bucket_of(p, t.cap) \in matching}
         IN  IF hit # {}
             THEN [found |-> bucket_of(SetMin(hit), t.cap), steps |-> k,
                   empty |-> FALSE]
             ELSE IF \E p \in ps : t.ctrl[p + 1] = EMPTY
             THEN [found |-> -1, steps |-> k, empty |-> TRUE]
             ELSE probe_get(t, tag, matching, order, k + 1)

raw_probe(t, hash, matching) ==
    IF raw_is_empty(t) THEN [found |-> -1, steps |-> 0, empty |-> TRUE]
    ELSE probe_get(t, h2(hash), matching, probe_seq(hash, t.cap), 1)

\* ArchivedRawSwissTable::get_with / get_with_mut: the bucket of the entry.
raw_get_with(t, hash, matching) ==
    LET r == raw_probe(t, hash, matching)
    IN  IF r.found = -1 THEN None ELSE Some(r.found)

\* RawIter: control bytes of the non-duplicated region, left to right.
raw_iter(t) == [pos |-> 0, remaining |-> t.len]

RECURSIVE next_full(_, _)
next_full(t, p) ==
    IF p >= t.cap THEN -1
    ELSE IF t.ctrl[p + 1] # EMPTY THEN p ELSE next_full(t, p + 1)

\* RawIter::next: the next occupied bucket, or None once none is left.
raw_iter_next(t, it) ==
    LET b == IF it.remaining = 0 THEN -1 ELSE next_full(t, it.pos)
    IN  IF b = -1 THEN [item |-> None, it |-> it]
        ELSE [item |-> Some(b),
              it |-> [pos |-> b + 1, remaining |-> it.remaining - 1]]

raw_iter_len(it) == it.remaining


---------------------------------------------------------------------------
(* 4.3 The typed map: ArchivedSwissTable<K, V> *)

\* The default comparison of get / get_key_value: |q, k| q == k.borrow().
KeyEq == {<<k, k>> : k \in Keys}

\* A closure that accepts every entry whose tag matched.
entry_cmp_any(t, key, cmp) == 0 .. (t.cap - 1)

\* The closure |e| cmp(key, &e.key) handed to the raw table, as the set of
\* buckets whose entry it accepts.
entry_cmp(t, key, cmp) ==
    {b \in 0 .. (t.cap - 1) : <<key, t.slots[b + 1].key>> \in cmp}

\* EntryAdapter with the hasher taking the entry's value for its key.
EntryAdapter_hashes_value(h, pair) ==
    [entry |-> [key |-> pair.key, value |-> pair.value],
     hash  |-> hash_value(h, pair.value)]

\* EntryAdapter { key, value } and the hasher |e| hash_value(e.key).
EntryAdapter(h, pair) ==
    [entry |-> [key |-> pair.key, value |-> pair.value],
     hash  |-> hash_value(h, pair.key)]

serialize_from_iter(h, it, lf) ==
    raw_serialize_from_iter([i \in DOMAIN it |-> EntryAdapter(h, it[i])], lf)

resolve_from_len(len, lf, rsv) == raw_resolve_from_len(len, lf, rsv)

get_key_value_with(t, h, key, cmp) ==
    LET e == raw_get_with(t, hash_value(h, key), entry_cmp(t, key, cmp))
    IN  IF e = None THEN None
        ELSE Some(<<t.slots[e[1] + 1].key, t.slots[e[1] + 1].value>>)

get_key_value(t, h, key) == get_key_value_with(t, h, key, KeyEq)

get_with(t, h, key, cmp) ==
    LET kv == get_key_value_with(t, h, key, cmp)
    IN  IF kv = None THEN None ELSE Some(kv[1][2])

get(t, h, key) ==
    LET kv == get_key_value(t, h, key)
    IN  IF kv = None THEN None ELSE Some(kv[1][2])

\* get_key_value_mut_with handing out the entry's key as the mutable part.
get_key_value_mut_with_key_handle(t, h, key, cmp) ==
    LET e == raw_get_with(t, hash_value(h, key), entry_cmp(t, key, cmp))
    IN  IF e = None THEN None
        ELSE Some(<<t.slots[e[1] + 1].key,
                    [bucket |-> e[1], field |-> "key"]>>)

\* The exclusive handle to a value: the bucket and the field it points into.
get_key_value_mut_with(t, h, key, cmp) ==
    LET e == raw_get_with(t, hash_value(h, key), entry_cmp(t, key, cmp))
    IN  IF e = None THEN None
        ELSE Some(<<t.slots[e[1] + 1].key,
                    [bucket |-> e[1], field |-> "value"]>>)

get_key_value_mut(t, h, key) == get_key_value_mut_with(t, h, key, KeyEq)

get_mut(t, h, key) ==
    LET kv == get_key_value_mut(t, h, key)
    IN  IF kv = None THEN None ELSE Some(kv[1][2])

\* capacity answering with the length.
capacity_is_len(t) == raw_len(t)

\* contains_key with is_none for is_some.
contains_key_is_none(t, h, key) == get(t, h, key) = None

contains_key(t, h, key) == get(t, h, key) # None

is_empty(t) == raw_is_empty(t)
len(t) == raw_len(t)
capacity(t) == raw_capacity(t)

\* index: self.get(key).unwrap() panics on None.
index(t, h, key) ==
    LET v == get(t, h, key)
    IN  IF v = None THEN [panic |-> TRUE, value |-> 0]
        ELSE [panic |-> FALSE, value |-> v[1]]

\* A store through a handle obtained from a _mut accessor.
store(t, handle, v) ==
    [t EXCEPT !.slots[handle.bucket + 1][handle.field] = v]

\* iter / keys / values / iter_mut / values_mut: all wrap raw_iter().
IterKinds == {"iter", "keys", "values", "iter_mut", "values_mut"}
MutKinds == {"iter_mut", "values_mut"}

new_iter(t, kind) == [kind |-> kind, raw |-> raw_iter(t)]

\* next with Keys yielding what Values yields.
Iter_next_keys_yield_value(t, it) ==
    LET r == raw_iter_next(t, it.raw)
        e == t.slots[r.item[1] + 1]
        h == [bucket |-> r.item[1], field |-> "value"]
    IN  [it   |-> [it EXCEPT !.raw = r.it],
         item |-> IF r.item = None THEN None
                  ELSE CASE it.kind = "iter"       -> Some(<<e.key, e.value>>)
                         [] it.kind = "keys"       -> Some(e.value)
                         [] it.kind = "values"     -> Some(e.value)
                         [] it.kind = "iter_mut"   -> Some(<<e.key, h>>)
                         [] it.kind = "values_mut" -> Some(h)]

\* <Iter / Keys / Values / IterMut / ValuesMut as Iterator>::next
Iter_next(t, it) ==
    LET r == raw_iter_next(t, it.raw)
        e == t.slots[r.item[1] + 1]
        h == [bucket |-> r.item[1], field |-> "value"]
    IN  [it   |-> [it EXCEPT !.raw = r.it],
         item |-> IF r.item = None THEN None
                  ELSE CASE it.kind = "iter"       -> Some(<<e.key, e.value>>)
                         [] it.kind = "keys"       -> Some(e.key)
                         [] it.kind = "values"     -> Some(e.value)
                         [] it.kind = "iter_mut"   -> Some(<<e.key, h>>)
                         [] it.kind = "values_mut" -> Some(h)]

\* ExactSizeIterator::len
Iter_len(it) == raw_iter_len(it.raw)

\* self.iter().all(|(key, value)| other.get(key).map_or(false, |v| *value == *v))
RECURSIVE iter_all(_, _, _, _)
iter_all(t, it, other, h) ==
    LET n == Iter_next(t, it)
    IN  IF n.item = None THEN TRUE
        ELSE LET v == get(other, h, n.item[1][1])
             IN  IF v = None \/ v[1] # n.item[1][2] THEN FALSE
                 ELSE iter_all(t, n.it, other, h)

\* eq without the comparison of the lengths.
eq_without_len(t, other, h) == iter_all(t, new_iter(t, "iter"), other, h)

\* PartialEq::eq
eq(t, other, h) ==
    IF len(t) # len(other) THEN FALSE
    ELSE iter_all(t, new_iter(t, "iter"), other, h)


---------------------------------------------------------------------------
(* The map's life: build, resolve, then lookups, iteration and stores *)

\* The pairs to archive: keys 1..n in ascending or descending order.
InputOf(n, order) ==
    [i \in 1 .. n |->
        LET k == IF order = "asc" THEN i ELSE n + 1 - i
        IN  [key |-> k, value |-> 100 + (k % 2)]]

\* What is built: every small input under every load factor and hasher, and
\* the inputs that fill one group, or one group and one more bucket, under
\* the load factors that leave no bucket or half the buckets unoccupied.
Configs ==
    {[pairs |-> InputOf(n, o), lf |-> lf, h |-> h] :
        n \in 0 .. SmallLen, o \in {"asc", "desc"},
        lf \in LoadFactors, h \in Hashers}
    \cup
    {[pairs |-> InputOf(n, "asc"), lf |-> lf, h |-> h] :
        n \in {MAX_GROUP_WIDTH, MAX_GROUP_WIDTH + 1},
        lf \in {<<1, 1>>, <<1, 2>>}, h \in Hashers}

\* The keys the lookup operations are called with: the first and the last
\* key of the input and the first key past it.
QueryKeys == {k \in Keys : k = 1 \/ k = Len(input) \/ k = Len(input) + 1}

\* The mapping a sequence of pairs with unique keys denotes.
MappingOf(pairs) ==
    [k \in Keys |->
        IF \E i \in DOMAIN pairs : pairs[i].key = k
        THEN Some((CHOOSE p \in {pairs[i] : i \in DOMAIN pairs} : p.key = k).value)
        ELSE None]

PresentKeys(m) == {k \in Keys : m[k] # None}

RECURSIVE PairsOf(_, _)
PairsOf(m, ks) ==
    IF ks = {} THEN <<>>
    ELSE LET k == SetMin(ks)
         IN  <<[key |-> k, value |-> m[k][1]]>> \o PairsOf(m, ks \ {k})

Reverse(q) == [i \in 1 .. Len(q) |-> q[Len(q) + 1 - i]]

\* A second map's pairs, derived from the pairs the first one holds now.
Variations == {"same", "reversed", "value", "key", "shorter", "longer"}
OtherValue(v) == IF v = 100 THEN 101 ELSE 100
Variant(m, how) ==
    LET cur == PairsOf(m, PresentKeys(m))
        n == Len(cur)
        absent == SetMin(Keys \ PresentKeys(m))
    IN  CASE how = "same" -> cur
          [] how = "reversed" -> Reverse(cur)
          [] how = "value" ->
                IF n = 0 THEN cur
                ELSE [cur EXCEPT ![1].value = OtherValue(cur[1].value)]
          [] how = "key" ->
                IF n = 0 THEN cur ELSE [cur EXCEPT ![1].key = absent]
          [] how = "shorter" -> IF n = 0 THEN cur ELSE SubSeq(cur, 1, n - 1)
          [] how = "longer" -> Append(cur, [key |-> absent, value |-> 100])

build(h, pairs, lf) ==
    resolve_from_len(Len(pairs), lf, serialize_from_iter(h, pairs, lf))

MapInit ==
    /\ phase = "init"
    /\ \E c \in Configs :
          /\ input = c.pairs
          /\ load_factor = c.lf
          /\ hasher = c.h
    /\ resolver = NoResolver
    /\ table = NoTable
    /\ contents = MappingOf(input)
    /\ res = NoRes
    /\ iter = NoIter
    /\ yielded = <<>>
    /\ writes = 0

SerializeFromIter ==
    /\ phase = "init"
    /\ resolver' = serialize_from_iter(hasher, input, load_factor)
    /\ phase' = "serialized"
    /\ UNCHANGED <<input, load_factor, hasher, table, contents, res, iter,
                   yielded, writes>>
    /\ UNCHANGED rcvars

ResolveFromLen ==
    /\ phase = "serialized"
    /\ table' = resolve_from_len(Len(input), load_factor, resolver)
    /\ phase' = "resolved"
    /\ UNCHANGED <<input, load_factor, hasher, resolver, contents, res, iter,
                   yielded, writes>>
    /\ UNCHANGED rcvars

\* Operations are explored one borrow of the map at a time: a lookup starts
\* when no iterator is live.
Shared == phase = "resolved" /\ iter.kind = "none"
\* An exclusive borrow (Pin<&mut Self>) is possible only with no iterator live.
Exclusive == phase = "resolved" /\ iter.kind = "none"

\* Stores are explored on the small maps, MaxWrites of them per behaviour.
CanStore == writes < MaxWrites /\ Len(input) <= SmallLen

Frame == UNCHANGED <<phase, input, load_factor, hasher, resolver>>
         /\ UNCHANGED rcvars
ReadOnly == Frame /\ UNCHANGED <<table, contents, iter, yielded, writes>>

Get(k) ==
    /\ Shared
    /\ res' = [op |-> "get", key |-> k, out |-> get(table, hasher, k)]
    /\ ReadOnly

GetKeyValue(k) ==
    /\ Shared
    /\ res' = [op |-> "get_key_value", key |-> k,
               out |-> get_key_value(table, hasher, k)]
    /\ ReadOnly

ContainsKey(k) ==
    /\ Shared
    /\ res' = [op |-> "contains_key", key |-> k,
               out |-> contains_key(table, hasher, k)]
    /\ ReadOnly

Index(k) ==
    /\ Shared
    /\ res' = [op |-> "index", key |-> k, out |-> index(table, hasher, k)]
    /\ ReadOnly

Sizes ==
    /\ Shared
    /\ res' = [op |-> "sizes", len |-> len(table), capacity |-> capacity(table),
               is_empty |-> is_empty(table)]
    /\ ReadOnly

\* a == b, and b == a, for a second map built from pairs derived from the
\* first one's; the same pairs in the same order are laid out sparser.
OtherLoadFactor(how) == IF how = "same" THEN <<1, 2>> ELSE load_factor
Eq(how) ==
    /\ Shared
    /\ LET pairs == Variant(contents, how)
           other == build(hasher, pairs, OtherLoadFactor(how))
       IN  res' = [op |-> "eq", other |-> pairs, other_slots |-> other.slots,
                   out |-> eq(table, other, hasher),
                   rev |-> eq(other, table, hasher)]
    /\ ReadOnly

\* get_mut(k), then a store of v through the handle when there is one
GetMut(k, v) ==
    /\ Exclusive
    /\ CanStore
    /\ LET hd == get_mut(table, hasher, k)
       IN  /\ res' = [op |-> "get_mut", key |-> k, out |-> hd, stored |-> v]
           /\ IF hd = None
              THEN UNCHANGED <<table, contents, writes>>
              ELSE /\ table' = store(table, hd[1], v)
                   /\ contents' = [contents EXCEPT ![k] = Some(v)]
                   /\ writes' = writes + 1
    /\ UNCHANGED <<iter, yielded>>
    /\ Frame

IterStart(kind) ==
    /\ Exclusive
    /\ iter' = new_iter(table, kind)
    /\ yielded' = <<>>
    /\ res' = [op |-> "iter", len |-> Iter_len(iter')]
    /\ UNCHANGED <<table, contents, writes>>
    /\ Frame

\* next() on a shared iterator
IterNext ==
    /\ phase = "resolved"
    /\ iter.kind \in IterKinds \ MutKinds
    /\ LET n == Iter_next(table, iter)
       IN  /\ iter' = n.it
           /\ yielded' = IF n.item = None THEN yielded
                         ELSE Append(yielded, n.item[1])
           /\ res' = [op |-> "next", out |-> n.item, len |-> Iter_len(n.it)]
    /\ UNCHANGED <<table, contents, writes>>
    /\ Frame

\* next() on a mutable iterator; with `doStore`, v is stored through the
\* handle it returned
IterNextMut(doStore, v) ==
    /\ phase = "resolved"
    /\ iter.kind \in MutKinds
    /\ doStore => CanStore
    /\ LET n == Iter_next(table, iter)
           hd == IF iter.kind = "iter_mut" THEN n.item[1][2] ELSE n.item[1]
       IN  /\ iter' = n.it
           /\ yielded' = IF n.item = None THEN yielded
                         ELSE Append(yielded, n.item[1])
           /\ res' = [op |-> "next", out |-> n.item, len |-> Iter_len(n.it)]
           /\ IF n.item = None \/ ~doStore
              THEN UNCHANGED <<table, contents, writes>>
              ELSE /\ table' = store(table, hd, v)
                   /\ contents' =
                        [contents EXCEPT
                            ![table.slots[hd.bucket + 1].key] = Some(v)]
                   /\ writes' = writes + 1
    /\ Frame

IterDrop ==
    /\ phase = "resolved"
    /\ iter.kind # "none"
    /\ iter' = NoIter
    /\ yielded' = <<>>
    /\ res' = [op |-> "drop"]
    /\ UNCHANGED <<table, contents, writes>>
    /\ Frame

Next ==
    \/ SerializeFromIter
    \/ ResolveFromLen
    \/ \E k \in QueryKeys : Get(k)
    \/ \E k \in QueryKeys : GetKeyValue(k)
    \/ \E k \in QueryKeys : ContainsKey(k)
    \/ \E k \in QueryKeys : Index(k)
    \/ Sizes
    \/ \E how \in Variations : Eq(how)
    \/ \E k \in QueryKeys, v \in Vals : GetMut(k, v)
    \/ \E kind \in IterKinds : IterStart(kind)
    \/ IterNext
    \/ \E d \in BOOLEAN, v \in Vals : IterNextMut(d, v)
    \/ IterDrop


---------------------------------------------------------------------------
(* Validation of shared and weak pointers: ArchivedRc<T>, ArchivedRcWeak<T> *)

\* ArchivedRcWeakTag::None as u8, ArchivedRcWeakTag::Some as u8
TAG_NONE == 0
TAG_SOME == 1

Bytes == 0 .. 255
\* Discriminant bytes an archive may hold that are no tag.
BadTags == {2, 127}

Locs == 1 .. NLocs
\* The holder of the root value, which no pointer refers to.
Root == 0

\* TypeId::of::<ArchivedRc<T>>()
TypeIdOfRc == "ArchivedRc<T>"
ClaimKey(l) == <<TypeIdOfRc, l>>

\* A field of a value.  ptr says what the pointer's bytes are: "ok", "bad"
\* (the relative pointer's own check fails) or "ctx" (the context refuses
\* the claim).  A leaf is a plain value whose bytes are valid or not.
RcField(l, p) ==
    [kind |-> "rc", tag |-> TAG_SOME, target |-> l, ptr |-> p, ok |-> TRUE]
WeakField(t, l, p) ==
    [kind |-> "weak", tag |-> t, target |-> l, ptr |-> p, ok |-> TRUE]
LeafField(ok) ==
    [kind |-> "leaf", tag |-> TAG_NONE, target |-> 1, ptr |-> "ok", ok |-> ok]

\* Well-formed pointer fields.  The payload after a NONE tag is not a
\* pointer at all.
GoodFields ==
    {RcField(l, "ok") : l \in Locs}
    \cup {WeakField(TAG_SOME, l, "ok") : l \in Locs}
    \cup {WeakField(TAG_NONE, 1, "bad")}

SeqsUpTo(S, n) == UNION {[1 .. m -> S] : m \in 0 .. n}

\* Well-formed archives: a root of up to MaxRootFields pointers, and shared
\* values that are plain or hold one pointer.
Shapes ==
    [root : SeqsUpTo(GoodFields, MaxRootFields),
     shared : [Locs -> SeqsUpTo(GoodFields, 1)]]

FieldsAt(buf, h) == IF h = Root THEN buf.root ELSE buf.shared[h]

Holders == {Root} \cup Locs

\* At most one corruption per archive: a pointer whose own bytes are bad, a
\* pointer the context refuses, a discriminant that is no tag, or a shared
\* value with an invalid plain part.
Corruptions(shape) ==
    {[how |-> "none", at |-> Root, i |-> 0, tag |-> TAG_NONE]}
    \cup {[how |-> hw, at |-> h, i |-> i, tag |-> TAG_NONE] :
            hw \in {"bad", "ctx"},
            h \in Holders,
            i \in 1 .. MaxRootFields}
    \cup {[how |-> "tag", at |-> h, i |-> i, tag |-> t] :
            h \in Holders, i \in 1 .. MaxRootFields, t \in BadTags}
    \cup {[how |-> "leaf", at |-> l, i |-> 0, tag |-> TAG_NONE] : l \in Locs}

Applies(shape, c) ==
    CASE c.how \in {"none", "leaf"} -> TRUE
      [] c.how \in {"bad", "ctx"} ->
            /\ c.i <= Len(FieldsAt(shape, c.at))
            /\ FieldsAt(shape, c.at)[c.i].tag = TAG_SOME
      [] c.how = "tag" ->
            /\ c.i <= Len(FieldsAt(shape, c.at))
            /\ FieldsAt(shape, c.at)[c.i].kind = "weak"

CorruptFields(fs, h, c) ==
    IF c.at # h \/ c.how = "none" THEN fs
    ELSE CASE c.how = "leaf" -> <<LeafField(FALSE)>> \o fs
           [] c.how = "tag" -> [fs EXCEPT ![c.i].tag = c.tag]
           [] OTHER -> [fs EXCEPT ![c.i].ptr = c.how]

Corrupt(shape, c) ==
    [root |-> CorruptFields(shape.root, Root, c),
     shared |-> [l \in Locs |-> CorruptFields(shape.shared[l], l, c)]]

\* The archives a pass may be handed: the given shapes, each as it is and
\* with each fault it can carry.
Buffers(shapes) ==
    UNION {{Corrupt(sh, c) : c \in {x \in Corruptions(sh) : Applies(sh, x)}} :
              sh \in shapes}

NoBuffer == [root |-> <<>>, shared |-> [l \in Locs |-> <<>>]]

\* Errors: the chain of variants, outermost first, and the byte InvalidTag
\* carries (-1 when the error is no InvalidTag).
Error(path, tag) == [path |-> path, tag |-> tag]
NoError == Error(<<>>, -1)

\* RelPtr::manual_check_bytes: the check of the pointer's own bytes.
manual_check_bytes(f) == f.ptr # "bad"

\* SharedArchiveContext::claim_shared_ptr: fails when the context refuses;
\* Some(target) for a key claimed now, None for a key claimed before.
claim_shared_ptr(f, cl, type_id) ==
    IF f.ptr = "ctx" THEN [err |-> TRUE, ptr |-> None, claimed |-> cl]
    ELSE IF <<type_id, f.target>> \in cl
    THEN [err |-> FALSE, ptr |-> None, claimed |-> cl]
    ELSE [err |-> FALSE, ptr |-> Some(f.target),
          claimed |-> cl \cup {<<type_id, f.target>>}]

\* check_bytes asking the context for the claim before the pointer's own
\* bytes are checked.
ArchivedRc_check_bytes_claims_first(f, cl) ==
    LET c == claim_shared_ptr(f, cl, TypeIdOfRc)
    IN  IF c.err
        THEN [kind |-> "err", target |-> f.target, claimed |-> c.claimed,
              err |-> Error(<<"ContextError">>, -1)]
        ELSE IF ~manual_check_bytes(f)
        THEN [kind |-> "err", target |-> f.target, claimed |-> c.claimed,
              err |-> Error(<<"PointerCheckBytesError">>, -1)]
        ELSE IF c.ptr # None
        THEN [kind |-> "validate", target |-> c.ptr[1],
              claimed |-> c.claimed, err |-> NoError]
        ELSE [kind |-> "ok", target |-> f.target, claimed |-> c.claimed,
              err |-> NoError]

\* check_bytes validating the target whether or not the key was claimed
\* before.
ArchivedRc_check_bytes_revalidates(f, cl) ==
    IF ~manual_check_bytes(f)
    THEN [kind |-> "err", target |-> f.target, claimed |-> cl,
          err |-> Error(<<"PointerCheckBytesError">>, -1)]
    ELSE LET c == claim_shared_ptr(f, cl, TypeIdOfRc)
         IN  IF c.err
             THEN [kind |-> "err", target |-> f.target, claimed |-> c.claimed,
                   err |-> Error(<<"ContextError">>, -1)]
             ELSE [kind |-> "validate", target |-> f.target,
                   claimed |-> c.claimed, err |-> NoError]

\* check_bytes validating the target before the claim is recorded.
ArchivedRc_check_bytes_claims_late(f, cl) ==
    IF ~manual_check_bytes(f)
    THEN [kind |-> "err", target |-> f.target, claimed |-> cl,
          err |-> Error(<<"PointerCheckBytesError">>, -1)]
    ELSE LET c == claim_shared_ptr(f, cl, TypeIdOfRc)
         IN  IF c.err
             THEN [kind |-> "err", target |-> f.target, claimed |-> c.claimed,
                   err |-> Error(<<"ContextError">>, -1)]
             ELSE IF c.ptr # None
             THEN [kind |-> "validate", target |-> c.ptr[1],
                   claimed |-> cl, err |-> NoError]
             ELSE [kind |-> "ok", target |-> f.target, claimed |-> c.claimed,
                   err |-> NoError]

\* <ArchivedRc<T> as CheckBytes<C>>::check_bytes up to its call of
\* T::check_bytes: kind "err" returns the error, "ok" returns Ok at once,
\* "validate" goes on to validate the target.
ArchivedRc_check_bytes(f, cl) ==
    IF ~manual_check_bytes(f)
    THEN [kind |-> "err", target |-> f.target, claimed |-> cl,
          err |-> Error(<<"PointerCheckBytesError">>, -1)]
    ELSE LET c == claim_shared_ptr(f, cl, TypeIdOfRc)
         IN  IF c.err
             THEN [kind |-> "err", target |-> f.target, claimed |-> c.claimed,
                   err |-> Error(<<"ContextError">>, -1)]
             ELSE IF c.ptr # None
             THEN [kind |-> "validate", target |-> c.ptr[1],
                   claimed |-> c.claimed, err |-> NoError]
             ELSE [kind |-> "ok", target |-> f.target, claimed |-> c.claimed,
                   err |-> NoError]

\* check_bytes taking every byte that is not SOME for NONE.
ArchivedRcWeak_check_bytes_lenient(f, cl) ==
    IF f.tag = TAG_SOME
    THEN LET r == ArchivedRc_check_bytes(f, cl)
         IN  IF r.kind = "err"
             THEN [r EXCEPT !.err = Error(<<"CheckBytes">> \o r.err.path,
                                          r.err.tag)]
             ELSE r
    ELSE [kind |-> "none", target |-> f.target, claimed |-> cl,
          err |-> NoError]

\* <ArchivedRcWeak<T> as CheckBytes<C>>::check_bytes, likewise; kind "none"
\* is the Ok of a NONE tag.
ArchivedRcWeak_check_bytes(f, cl) ==
    CASE f.tag = TAG_NONE ->
            [kind |-> "none", target |-> f.target, claimed |-> cl,
             err |-> NoError]
      [] f.tag = TAG_SOME ->
            LET r == ArchivedRc_check_bytes(f, cl)
            IN  IF r.kind = "err"
                THEN [r EXCEPT !.err = Error(<<"CheckBytes">> \o r.err.path,
                                             r.err.tag)]
                ELSE r
      [] OTHER ->
            [kind |-> "err", target |-> f.target, claimed |-> cl,
             err |-> Error(<<"InvalidTag">>, f.tag)]

\* An error of a field of the value on top of the stack, as the outermost
\* check returns it: every enclosing shared pointer check wraps it as its
\* ValueCheckBytesError, and a weak pointer wraps that as its CheckBytes.
RECURSIVE Propagate(_, _)
Propagate(stk, e) ==
    IF stk = <<>> THEN e
    ELSE LET fr == stk[Len(stk)]
             w == CASE fr.via = "rc" -> <<"ValueCheckBytesError">>
                    [] fr.via = "weak" -> <<"CheckBytes", "ValueCheckBytesError">>
                    [] OTHER -> <<>>
         IN  Propagate(SubSeq(stk, 1, Len(stk) - 1), Error(w \o e.path, e.tag))

Frame0(h, via) == [at |-> h, i |-> 1, via |-> via]
NoLast == [op |-> "none", field |-> LeafField(TRUE), before |-> {},
           out |-> "none", err |-> NoError]

Top == stack[Len(stack)]
TopFields == FieldsAt(buffer, Top.at)
Running == result.status = "running" /\ stack # <<>>
AtField(kind) ==
    /\ Running
    /\ Top.i <= Len(TopFields)
    /\ TopFields[Top.i].kind = kind

Advance(stk) == [stk EXCEPT ![Len(stk)].i = @ + 1]

Fail(e) ==
    /\ result' = [status |-> "err", err |-> Propagate(stack, e)]
    /\ stack' = <<>>

MapIdle ==
    /\ phase = "init"
    /\ input = <<>>
    /\ load_factor = <<1, 1>>
    /\ hasher = "spread"
    /\ resolver = NoResolver
    /\ table = NoTable
    /\ contents = MappingOf(<<>>)
    /\ res = NoRes
    /\ iter = NoIter
    /\ yielded = <<>>
    /\ writes = 0

RcIdle ==
    /\ buffer = NoBuffer
    /\ claimed = {}
    /\ stack = <<>>
    /\ visits = [l \in Locs |-> 0]
    /\ checks = [l \in Locs |-> 0]
    /\ result = [status |-> "idle", err |-> NoError]
    /\ last = NoLast

RcInit ==
    /\ buffer \in Buffers(Shapes)
    /\ claimed = {}
    /\ stack = <<>>
    /\ visits = [l \in Locs |-> 0]
    /\ checks = [l \in Locs |-> 0]
    /\ result = [status |-> "idle", err |-> NoError]
    /\ last = NoLast

\* The validation pass begins with the root value, under a fresh context.
Start ==
    /\ result.status = "idle"
    /\ stack' = <<Frame0(Root, "root")>>
    /\ result' = [status |-> "running", err |-> NoError]
    /\ UNCHANGED <<buffer, claimed, visits, checks, last>>
    /\ UNCHANGED mapvars

\* The check of a plain part of the value being validated.
CheckLeaf ==
    /\ AtField("leaf")
    /\ IF TopFields[Top.i].ok
       THEN stack' = Advance(stack) /\ UNCHANGED result
       ELSE Fail(Error(<<"LeafError">>, -1))
    /\ last' = NoLast
    /\ UNCHANGED <<buffer, claimed, visits, checks>>
    /\ UNCHANGED mapvars

\* What a pointer check's outcome does to the pass: an error fails it, Ok
\* goes on with the next field, and a target to validate is entered, which
\* the stack may be too deep for.
Apply(out, via) ==
    /\ claimed' = out.claimed
    /\ CASE out.kind = "err" ->
              Fail(out.err) /\ UNCHANGED <<visits, checks>>
         [] out.kind = "none" ->
              /\ stack' = Advance(stack)
              /\ UNCHANGED <<result, visits, checks>>
         [] out.kind = "ok" ->
              /\ stack' = Advance(stack)
              /\ checks' = [checks EXCEPT ![out.target] = @ + 1]
              /\ UNCHANGED <<result, visits>>
         [] out.kind = "validate" ->
              /\ visits' = [visits EXCEPT ![out.target] = @ + 1]
              /\ IF Len(stack) >= MaxDepth
                 THEN /\ result' = [status |-> "overflow", err |-> NoError]
                      /\ stack' = <<>>
                 ELSE /\ stack' = Append(stack, Frame0(out.target, via))
                      /\ UNCHANGED result
              /\ UNCHANGED checks

\* ArchivedRc::check_bytes on an ArchivedRc<T> field
CheckRc ==
    /\ AtField("rc")
    /\ LET f == TopFields[Top.i]
           out == ArchivedRc_check_bytes(f, claimed)
       IN  /\ Apply(out, "rc")
           /\ last' = [op |-> "rc", field |-> f, before |-> claimed,
                       out |-> out.kind, err |-> out.err]
    /\ UNCHANGED buffer
    /\ UNCHANGED mapvars

\* ArchivedRcWeak::check_bytes on an ArchivedRcWeak<T> field
CheckWeak ==
    /\ AtField("weak")
    /\ LET f == TopFields[Top.i]
           out == ArchivedRcWeak_check_bytes(f, claimed)
       IN  /\ Apply(out, "weak")
           /\ last' = [op |-> "weak", field |-> f, before |-> claimed,
                       out |-> out.kind, err |-> out.err]
    /\ UNCHANGED buffer
    /\ UNCHANGED mapvars

\* T::check_bytes of the value on top of the stack returns Ok: the pointer
\* check that entered it returns Ok(&*value), or the pass ends.
Return ==
    /\ Running
    /\ Top.i > Len(TopFields)
    /\ IF Len(stack) = 1
       THEN /\ stack' = <<>>
            /\ result' = [status |-> "ok", err |-> NoError]
            /\ UNCHANGED checks
       ELSE /\ stack' = Advance(SubSeq(stack, 1, Len(stack) - 1))
            /\ checks' = [checks EXCEPT ![Top.at] = @ + 1]
            /\ UNCHANGED result
    /\ last' = NoLast
    /\ UNCHANGED <<buffer, claimed, visits>>
    /\ UNCHANGED mapvars

NextRc ==
    \/ Start
    \/ CheckLeaf
    \/ CheckRc
    \/ CheckWeak
    \/ Return

---------------------------------------------------------------------------
(* The two systems *)

Init == MapInit /\ RcIdle
Spec == Init /\ [][Next]_vars

\* A validation pass is sequential code: it takes its next step.
InitRc == RcInit /\ MapIdle
SpecRc == InitRc /\ [][NextRc]_vars /\ WF_vars(NextRc)

---------------------------------------------------------------------------
(* Claims about the map *)

\* C1 (round trip): once the map is resolved, get(k) is the value the input
\* (with the stores made since) holds under k for every key of it, and None
\* for every other key; the Get operation reports exactly that.
C1_RoundTrip ==
    phase = "resolved" =>
        /\ \A k \in Keys : get(table, hasher, k) = contents[k]
        /\ res.op = "get" => res.out = contents[res.key]

\* C1's case: in a full two-group map whose keys all share one hash, the key
\* inserted last is looked up and found.
C1_Witness ==
    /\ phase = "resolved"
    /\ hasher = "clash"
    /\ load_factor = <<1, 1>>
    /\ Len(input) = MAX_GROUP_WIDTH + 1
    /\ res.op = "get"
    /\ res.key = MAX_GROUP_WIDTH + 1
    /\ res.out = Some(101)
    /\ get(table, hasher, MAX_GROUP_WIDTH + 2) = None

\* The pairs of A all have an equal value under the same key in B, and the
\* two hold equally many pairs.
SamePairs(m, pairs) ==
    /\ Cardinality(PresentKeys(m)) = Len(pairs)
    /\ \A k \in PresentKeys(m) :
          \E i \in DOMAIN pairs :
              pairs[i].key = k /\ pairs[i].value = m[k][1]

\* C5 (equality): a == b is true exactly when the two maps hold equally many
\* pairs and every pair of a has an equal value under the same key in b,
\* whatever the insertion order and layout, and b == a gives the same answer.
C5_EqOrderIndependent ==
    res.op = "eq" =>
        /\ res.out = SamePairs(contents, res.other)
        /\ res.rev = res.out

\* C5's case: two maps of colliding keys built in opposite orders, laid out
\* differently, compare equal.
C5_Witness ==
    /\ res.op = "eq"
    /\ Len(input) >= 2
    /\ res.other = Reverse(PairsOf(contents, PresentKeys(contents)))
    /\ res.other_slots # table.slots
    /\ Len(res.other_slots) = Len(table.slots)
    /\ res.out = TRUE

\* The lookup walk get(k) makes.
ProbeOf(k) == raw_probe(table, hash_value(hasher, k), entry_cmp(table, k, KeyEq))

\* C6 (probe termination): for every key that is not in the map, get is
\* None after at most bucket_count probe steps, and the walk stopped at a
\* group holding an EMPTY byte or after every group was probed.
C6_ProbeTermination ==
    phase = "resolved" =>
        \A k \in Keys :
            contents[k] = None =>
                /\ get(table, hasher, k) = None
                /\ ProbeOf(k).found = -1
                /\ ProbeOf(k).steps <= capacity(table)
                /\ ProbeOf(k).empty \/ ProbeOf(k).steps = group_count(table.cap)

\* C6's case: a group-aligned map at load factor (1, 1) has no EMPTY control
\* byte, and a key that is not in it but shares the tag of all is looked up.
C6_Witness ==
    /\ phase = "resolved"
    /\ load_factor = <<1, 1>>
    /\ hasher = "clash"
    /\ Len(input) = MAX_GROUP_WIDTH
    /\ \A i \in DOMAIN table.ctrl : table.ctrl[i] # EMPTY
    /\ res.op = "get"
    /\ res.key = MAX_GROUP_WIDTH + 1
    /\ res.out = None

\* C7 (load factor bound): the bucket count b of a map of n pairs is the
\* least b with b >= n and n * den <= b * num; it is 0 for n = 0.
C7_LoadFactorBound ==
    phase = "resolved" =>
        LET n == Len(input)
            b == capacity(table)
            num == load_factor[1]
            den == load_factor[2]
        IN  /\ len(table) = n
            /\ b >= n
            /\ n * den <= b * num
            /\ b = n \/ (b - 1) * num < n * den
            /\ n = 0 => b = 0
            /\ res.op = "sizes" => res.capacity = b /\ res.len = n

\* C7's case: the bucket count is rounded up (3 pairs at 7/8 need 4 buckets).
C7_Witness ==
    /\ phase = "resolved"
    /\ load_factor = <<7, 8>>
    /\ res.op = "sizes"
    /\ res.len = 3
    /\ res.capacity = 4

Exhausted == res.op = "next" /\ res.out = None

Count(q, x) == Cardinality({i \in DOMAIN q : q[i] = x})

\* C8 (iteration): a live iterator reports as remaining what it has still to
\* yield, never yields a key or a bucket twice, yields only pairs the map
\* holds, and has yielded len() items, every pair of the map among them, once
\* it is exhausted.
C8_IterExactlyOnce ==
    iter.kind # "none" =>
        /\ Iter_len(iter) = Len(input) - Len(yielded)
        /\ res.op \in {"iter", "next"} => res.len = Iter_len(iter)
        /\ Exhausted => Len(yielded) = len(table)
        /\ iter.kind = "iter" =>
              /\ \A i \in DOMAIN yielded :
                    contents[yielded[i][1]] = Some(yielded[i][2])
              /\ \A i, j \in DOMAIN yielded :
                    i # j => yielded[i][1] # yielded[j][1]
              /\ Exhausted =>
                    \A k \in PresentKeys(contents) :
                        \E i \in DOMAIN yielded : yielded[i][1] = k
        /\ iter.kind = "keys" =>
              /\ \A i \in DOMAIN yielded : yielded[i] \in PresentKeys(contents)
              /\ \A i, j \in DOMAIN yielded : i # j => yielded[i] # yielded[j]
        /\ iter.kind = "values" =>
              /\ \A v \in Vals :
                    Count(yielded, v) <=
                        Cardinality({k \in Keys : contents[k] = Some(v)})
              /\ Exhausted =>
                    \A v \in Vals :
                        Count(yielded, v) =
                            Cardinality({k \in Keys : contents[k] = Some(v)})
        /\ iter.kind = "iter_mut" =>
              \A i, j \in DOMAIN yielded :
                  i # j => /\ yielded[i][1] # yielded[j][1]
                           /\ yielded[i][2].bucket # yielded[j][2].bucket
        /\ iter.kind = "values_mut" =>
              \A i, j \in DOMAIN yielded :
                  i # j => yielded[i].bucket # yielded[j].bucket

\* C8's case: iter() ran to its end over a full map of one group and one
\* bucket, whose control bytes end in a tail of repeated FULL bytes.
C8_Witness ==
    /\ iter.kind = "iter"
    /\ Exhausted
    /\ Len(yielded) = MAX_GROUP_WIDTH + 1
    /\ Len(table.ctrl) > table.cap
    /\ \A i \in DOMAIN table.ctrl : table.ctrl[i] # EMPTY

\* C9 (absence): a key that is not in the map makes get and get_key_value
\* None and contains_key false, and makes index panic; a key that is in it
\* makes none of these happen, and index returns what get returns.
C9_Absence ==
    phase = "resolved" =>
        /\ \A k \in Keys :
              LET absent == contents[k] = None
              IN  /\ (get(table, hasher, k) = None) <=> absent
                  /\ (get_key_value(table, hasher, k) = None) <=> absent
                  /\ contains_key(table, hasher, k) <=> ~absent
                  /\ index(table, hasher, k).panic <=> absent
                  /\ ~absent => Some(index(table, hasher, k).value)
                                    = get(table, hasher, k)
        /\ res.op = "index" => (res.out.panic <=> contents[res.key] = None)
        /\ res.op = "contains_key" => (res.out <=> contents[res.key] # None)
        /\ res.op = "get_key_value" =>
              ((res.out = None) <=> contents[res.key] = None)

\* C9's case: index is called with a key a non-empty map does not hold.
C9_Witness ==
    /\ phase = "resolved"
    /\ Len(input) > 0
    /\ res.op = "index"
    /\ contents[res.key] = None
    /\ res.out.panic

SlotKeys(t) == [b \in DOMAIN t.slots |-> t.slots[b].key]

\* C10 (frame of a store): no operation on a resolved map changes its
\* length, capacity, control bytes or the key of any slot; only get_mut and
\* a mutable iterator's next change the map at all; and after a store through
\* get_mut(k)'s handle, get(k) is the stored value and get(j) is what it was
\* for every other key j.
C10_StoreFrame ==
    [][phase = "resolved" =>
        /\ len(table') = len(table)
        /\ capacity(table') = capacity(table)
        /\ table'.ctrl = table.ctrl
        /\ SlotKeys(table') = SlotKeys(table)
        /\ res'.op \notin {"get_mut", "next"} => table' = table
        /\ res'.op = "get_mut" =>
              /\ \A j \in Keys \ {res'.key} :
                    get(table', hasher, j) = get(table, hasher, j)
              /\ res'.out # None =>
                    get(table', hasher, res'.key) = Some(res'.stored)
              /\ res'.out = None => table' = table]_vars

\* C10's case: a store through get_mut's handle has changed the value of a
\* key that shares its hash with the other keys of the map.
C10_Witness ==
    /\ phase = "resolved"
    /\ hasher = "clash"
    /\ Len(input) = 3
    /\ res.op = "get_mut"
    /\ res.out # None
    /\ contents[res.key] # MappingOf(input)[res.key]
    /\ get(table, hasher, res.key) = Some(res.stored)


---------------------------------------------------------------------------
(* Claims about the validation of shared and weak pointers *)

Done == result.status \in {"ok", "err", "overflow"}

\* Shared locations a pointer of the value at h refers to.
Targets(h) ==
    LET fs == FieldsAt(buffer, h)
    IN  {fs[i].target : i \in {j \in DOMAIN fs : /\ fs[j].kind # "leaf"
                                                 /\ fs[j].tag = TAG_SOME
                                                 /\ fs[j].ptr = "ok"}}

RECURSIVE ReachFrom(_, _)
ReachFrom(seen, frontier) ==
    IF frontier = {} THEN seen
    ELSE LET nxt == UNION {Targets(h) : h \in frontier} \ seen
         IN  ReachFrom(seen \cup nxt, nxt)

\* Shared locations the root reaches through shared and SOME weak pointers.
Reachable == ReachFrom({}, {Root})

\* The archive holds no corruption.
WellFormed ==
    \A h \in Holders :
        \A i \in DOMAIN FieldsAt(buffer, h) :
            FieldsAt(buffer, h)[i] \in GoodFields

\* Pointers (shared, or weak with tag SOME) to l among the values the pass
\* visits.
PointersTo(l) ==
    Cardinality({<<h, i>> \in Holders \X (1 .. MaxRootFields) :
                    /\ h = Root \/ h \in Reachable
                    /\ i <= Len(FieldsAt(buffer, h))
                    /\ FieldsAt(buffer, h)[i].kind \in {"rc", "weak"}
                    /\ FieldsAt(buffer, h)[i].tag = TAG_SOME
                    /\ FieldsAt(buffer, h)[i].target = l})

\* C2 (claim dedup): a shared location's bytes are validated at most once
\* in a pass, exactly when its key is claimed; a pointer check whose key was
\* claimed before returns Ok without validating anything; and the pass over
\* a well-formed archive succeeds with every location validated once however
\* many pointers refer to it, each of their checks having returned Ok.
C2_ClaimDedup ==
    /\ \A l \in Locs :
          /\ visits[l] <= 1
          /\ visits[l] = 1 <=> ClaimKey(l) \in claimed
    /\ (last.op \in {"rc", "weak"} /\ last.field.tag = TAG_SOME
            /\ last.field.ptr = "ok") =>
          IF ClaimKey(last.field.target) \in last.before
          THEN last.out = "ok" /\ claimed = last.before
          ELSE /\ last.out = "validate"
               /\ claimed = last.before \cup {ClaimKey(last.field.target)}
    /\ (Done /\ WellFormed) =>
          /\ result.status = "ok"
          /\ \A l \in Locs :
                /\ visits[l] = IF l \in Reachable THEN 1 ELSE 0
                /\ checks[l] = PointersTo(l)

\* C2's case: a pass has succeeded over an archive whose root holds a shared
\* and a weak pointer to the same location, which was validated once.
C2_Witness ==
    /\ result.status = "ok"
    /\ Len(buffer.root) = 2
    /\ buffer.root[1].kind = "rc"
    /\ buffer.root[2].kind = "weak"
    /\ buffer.root[2].tag = TAG_SOME
    /\ buffer.root[1].target = buffer.root[2].target
    /\ checks[buffer.root[1].target] >= 2
    /\ visits[buffer.root[1].target] = 1

\* The shared location l lies on a cycle of pointers.
OnCycle(l) == l \in ReachFrom({}, {l})

\* C3 (cycle termination): a pass never nests deeper than one call per
\* shared location below the root, so it never overflows the stack; there is
\* a claim for every location on the stack; the pass ends; and over a
\* well-formed archive, cyclic or not, it ends in success.
C3_CycleTerminates ==
    /\ [](/\ result.status # "overflow"
          /\ Len(stack) <= NLocs + 1
          /\ \A i \in DOMAIN stack :
                stack[i].at # Root => ClaimKey(stack[i].at) \in claimed
          /\ (Done /\ WellFormed) => result.status = "ok")
    /\ <>Done

\* C3's case: a pass has succeeded over an archive in which two locations
\* refer to each other, the cycle entered from the root.
C3_Witness ==
    /\ result.status = "ok"
    /\ \E l \in Locs :
          /\ OnCycle(l)
          /\ l \in Reachable
          /\ visits[l] = 1
          /\ \E m \in Locs \ {l} : OnCycle(m) /\ visits[m] = 1 /\ checks[m] = 1
          /\ checks[l] >= 2

\* C4 (weak discriminant): whenever a weak pointer is checked, then for
\* every byte b in place of its discriminant, over the same payload and
\* claims, the check returns Ok with the claims untouched when b is NONE,
\* does what the shared pointer check does on the payload when b is SOME
\* (wrapping its error as CheckBytes), and fails with InvalidTag(b), the
\* claims untouched, for every other b; and the pass goes on or fails with
\* that error accordingly.
C4_WeakDiscriminant ==
    last.op = "weak" =>
        /\ \A b \in Bytes :
              LET w == ArchivedRcWeak_check_bytes(
                           [last.field EXCEPT !.tag = b], last.before)
                  r == ArchivedRc_check_bytes(
                           [last.field EXCEPT !.tag = TAG_SOME], last.before)
              IN  CASE b = 0 -> w.kind = "none" /\ w.claimed = last.before
                    [] b = 1 ->
                         /\ w.kind = r.kind
                         /\ w.claimed = r.claimed
                         /\ w.target = r.target
                         /\ r.kind = "err" =>
                               w.err = Error(<<"CheckBytes">> \o r.err.path, -1)
                         /\ last.field.ptr = "ok" =>
                               w.kind = IF ClaimKey(last.field.target)
                                            \in last.before
                                        THEN "ok" ELSE "validate"
                    [] OTHER ->
                         /\ w.kind = "err"
                         /\ w.err = Error(<<"InvalidTag">>, b)
                         /\ w.claimed = last.before
        /\ CASE last.field.tag = 0 ->
                  /\ last.out = "none"
                  /\ claimed = last.before
                  /\ result.status = "running"
             [] last.field.tag = 1 ->
                  /\ last.out \in {"ok", "validate", "err"}
                  /\ last.field.ptr = "ok" =>
                        ClaimKey(last.field.target) \in claimed
             [] OTHER ->
                  /\ last.out = "err"
                  /\ result.status = "err"
                  /\ result.err.tag = last.field.tag
                  /\ result.err.path[Len(result.err.path)] = "InvalidTag"
                  /\ claimed = last.before

\* C4's case: a pass has failed on a weak pointer whose discriminant is 0x7F
\* on an otherwise well-formed payload.
C4_Witness ==
    /\ result.status = "err"
    /\ last.op = "weak"
    /\ last.field.tag = 127
    /\ last.field.ptr = "ok"
    /\ result.err.tag = 127

\* The positions of a variant in an error chain.
Positions(path, variant) == {i \in DOMAIN path : path[i] = variant}

\* The error chain `path` ends in `own`, the error of the check that failed,
\* and before it holds, outermost first, one ValueCheckBytesError for every
\* shared value of stk under validation, with a CheckBytes right before it
\* exactly when that value was entered through a weak pointer, and nothing
\* else.
Wrapped(path, stk, own) ==
    LET n == Len(path) - Len(own)
        head == SubSeq(path, 1, n)
        vs == Positions(head, "ValueCheckBytesError")
        cs == Positions(head, "CheckBytes")
        weak == {j \in 2 .. Len(stk) : stk[j].via = "weak"}
    IN  /\ n >= 0
        /\ SubSeq(path, n + 1, Len(path)) = own
        /\ vs \cup cs = DOMAIN head
        /\ Cardinality(vs) = Len(stk) - 1
        /\ Cardinality(cs) = Cardinality(weak)
        /\ \A i \in cs : i + 1 \in vs
        /\ \A j \in 2 .. Len(stk) :
              \A i \in vs :
                  Cardinality({x \in vs : x <= i}) = j - 1 =>
                      ((i - 1) \in cs <=> j \in weak)

\* The values a pass has validated or is validating.
Visited == {Root} \cup {l \in Locs : visits[l] > 0}

\* C11 (check order and failure): a shared pointer check whose pointer bytes
\* are bad fails with PointerCheckBytesError, no claim made and no value
\* visited; one whose claim the context refuses fails with ContextError, no
\* value visited; one whose pointer and claim are good does not fail at the
\* pointer, and visits the target exactly when the key was unclaimed; a
\* failure inside a value under validation reaches the outermost caller
\* wrapped in one ValueCheckBytesError per enclosing shared pointer, behind a
\* CheckBytes where a weak pointer led there; a failed pass has stopped; and
\* a pass that succeeds has visited no value holding a fault.
C11_CheckOrder ==
    /\ [][(last'.op \in {"rc", "weak"} /\ last'.field.tag = TAG_SOME) =>
            LET f == last'.field
                own == IF last'.op = "weak" THEN <<"CheckBytes">> ELSE <<>>
            IN  /\ last'.before = claimed
                /\ f.ptr = "bad" =>
                      /\ claimed' = claimed
                      /\ visits' = visits
                      /\ result'.status = "err"
                      /\ Wrapped(result'.err.path, stack,
                                 own \o <<"PointerCheckBytesError">>)
                /\ f.ptr = "ctx" =>
                      /\ visits' = visits
                      /\ result'.status = "err"
                      /\ Wrapped(result'.err.path, stack,
                                 own \o <<"ContextError">>)
                /\ f.ptr = "ok" =>
                      /\ result'.status # "err"
                      /\ ClaimKey(f.target) \in claimed'
                      /\ IF ClaimKey(f.target) \in claimed
                         THEN visits' = visits
                         ELSE visits' = [visits EXCEPT ![f.target] = 1]]_vars
    /\ [][(result.status = "running" /\ result'.status = "err"
             /\ last'.op = "none") =>
            /\ Wrapped(result'.err.path, stack, <<"LeafError">>)
            /\ Len(stack) > 1 =>
                  result'.err.path[1] \in {"ValueCheckBytesError", "CheckBytes"}
            /\ claimed' = claimed
            /\ visits' = visits]_vars
    /\ [](result.status = "err" =>
              /\ stack = <<>>
              /\ result.err.path # <<>>
              /\ ~WellFormed)
    /\ [](result.status = "ok" =>
              \A h \in Visited :
                  \A i \in DOMAIN FieldsAt(buffer, h) :
                      FieldsAt(buffer, h)[i] \in GoodFields)

\* C11's case: a pass has failed on a shared pointer with bad pointer bytes
\* that lies in a shared value reached through a weak pointer of the root;
\* the value holding it is claimed, its own target is not.
C11_Witness ==
    /\ result.status = "err"
    /\ last.op = "rc"
    /\ last.field.ptr = "bad"
    /\ result.err.path =
          <<"CheckBytes", "ValueCheckBytesError", "PointerCheckBytesError">>
    /\ claimed = last.before
    /\ ClaimKey(last.field.target) \notin claimed
    /\ visits[last.field.target] = 0


=============================================================================
